---- MODULE Spec2Model ----
(***************************************************************************)
(* Model of the OpenNebula inventory plugin                                *)
(* (src/plugins/inventory/opennebula.py).                                  *)
(*                                                                         *)
(* A run of InventoryModule.parse is a sequence of steps: the cache read,  *)
(* the slow-path query (_query, which builds one record per pooled VM),    *)
(* the cache write and one iteration of _populate_from_source per record.  *)
(* The remote platform (vmpool / template / vn endpoints) and the plugin   *)
(* options are the inputs.                                                 *)
(*                                                                         *)
(* Scope: runs with the pyone module importable (HAS_PYONE_MODULE); the    *)
(* platform answers the same way for the whole of one run and may answer   *)
(* differently in the next; the compose, groups and keyed_groups options   *)
(* are empty, so the three Constructable helpers called at the end of each *)
(* populate iteration add nothing to the inventory.                        *)
(*                                                                         *)
(* Python values that can be of several types are tagged records:          *)
(*   [t |-> "str", v |-> s]   a str                                        *)
(*   [t |-> "int", v |-> n]   an int                                       *)
(*   [t |-> "dict", v |-> d]  a mapping: the sequence of its <<key, value>> *)
(*                            pairs in insertion order, keys distinct      *)
(*   [t |-> "list", v |-> q]  a list of mappings                           *)
(*   [t |-> "none"]           None                                         *)
(* Strings are over Latin-1. The values of network_id_domain_map are tagged  *)
(* (a str or a list), as its keys are.                                     *)
(* A call that can raise returns [ok |-> TRUE, val |-> v] or               *)
(* [ok |-> FALSE, exc |-> exception class, at |-> the failing operation].  *)
(***************************************************************************)
EXTENDS Integers, Sequences, FiniteSets, TLC

VARIABLES
    remote,              \* the remote platform as seen by the current run
    options,             \* plugin options: cache, one_hostname_preference
    _cache,              \* self._cache: cache key -> stored sequence of records
    pc,                  \* position of the current run inside parse
    cache_key,           \* parse: cache_key
    cache,               \* parse: the cache argument of the run
    source_data,         \* parse: source_data (None or a list of records)
    cache_needs_update,  \* parse: cache_needs_update
    i,                   \* _populate_from_source: index of the next record
    inventory,           \* hosts registered by this run: hostname -> variables
    resolved,            \* outcome of the latest _get_hostname call of the run,
                         \* with the index (record) of the record it was made on
    error,               \* the exception that ended the run, if any
    cache_read,          \* "no" (not read), "hit" or "miss" in this run
    cache_writes,        \* writes to self._cache in this run
    queries,             \* executions of _query in this run
    last_query           \* cache key -> result of the latest completed _query

vars == <<remote, options, _cache, pc, cache_key, cache, source_data,
          cache_needs_update, i, inventory, resolved, error, cache_read,
          cache_writes, queries, last_query>>

\* Largest pool of VMs the remote platform lists.
MaxVMs == 2

-----------------------------------------------------------------------------
(* Python values *)

None == [t |-> "none"]
Str(s) == [t |-> "str", v |-> s]
Num(n) == [t |-> "int", v |-> n]
Dict(f) == [t |-> "dict", v |-> f]
List(q) == [t |-> "list", v |-> q]
EmptyDict == [k \in {} |-> None]

\* the keys of a mapping given as its sequence of pairs
Keys(d) == {d[n][1] : n \in DOMAIN d}

\* key in d
Has(d, key) == key \in Keys(d)

\* d[key]
Get(d, key) == d[CHOOSE n \in DOMAIN d : d[n][1] = key][2]

Ok(v) == [ok |-> TRUE, val |-> v]
Raise(exc, at) == [ok |-> FALSE, exc |-> exc, at |-> at]

\* the cased letters of Latin-1, the alphabet of the modelled strings
UpperChars == "ABCDEFGHIJKLMNOPQRSTUVWXYZÀÁÂÃÄÅÆÇÈÉÊËÌÍÎÏÐÑÒÓÔÕÖØÙÚÛÜÝÞ"
LowerChars == "abcdefghijklmnopqrstuvwxyzàáâãäåæçèéêëìíîïðñòóôõöøùúûüýþ"

\* the lower-case letter of every upper-case letter
LowerOf ==
    [c \in {SubSeq(UpperChars, n, n) : n \in 1..Len(UpperChars)} |->
        LET n == CHOOSE n \in 1..Len(UpperChars) : SubSeq(UpperChars, n, n) = c
        IN SubSeq(LowerChars, n, n)]

\* str.lower of one character
LowerChar(c) == IF c \in DOMAIN LowerOf THEN LowerOf[c] ELSE c

RECURSIVE lower(_)
\* str.lower
lower(s) ==
    IF Len(s) = 0 THEN ""
    ELSE LowerChar(SubSeq(s, 1, 1)) \o lower(SubSeq(s, 2, Len(s)))

\* to_text of a str returns the str
to_text(s) == s

DigitChars == "0123456789"

IsDigit(c) == \E n \in 1..10 : SubSeq(DigitChars, n, n) = c

DigitVal(c) == (CHOOSE n \in 1..10 : SubSeq(DigitChars, n, n) = c) - 1

\* the whitespace characters int() strips: space, tab, newline, return, form
\* feed, and the vertical tab, next line (U+0085) and no-break space (U+00A0)
IsSpace(c) == c \in {" ", "\t", "\n", "\r", "\f", "", "", " "}

\* s without its leading and trailing whitespace
Strip(s) ==
    LET inked == {n \in 1..Len(s) : ~IsSpace(SubSeq(s, n, n))}
    IN IF inked = {} THEN ""
       ELSE SubSeq(s, CHOOSE a \in inked : \A n \in inked : a <= n,
                      CHOOSE b \in inked : \A n \in inked : n <= b)

\* digits with single underscores between them
IsDigits(s) ==
    /\ Len(s) > 0
    /\ IsDigit(SubSeq(s, 1, 1))
    /\ IsDigit(SubSeq(s, Len(s), Len(s)))
    /\ \A n \in 1..Len(s) :
           \/ IsDigit(SubSeq(s, n, n))
           \/ SubSeq(s, n, n) = "_" /\ SubSeq(s, n + 1, n + 1) # "_"

RECURSIVE DigitsVal(_, _)
DigitsVal(s, acc) ==
    IF Len(s) = 0 THEN acc
    ELSE IF SubSeq(s, 1, 1) = "_" THEN DigitsVal(SubSeq(s, 2, Len(s)), acc)
    ELSE DigitsVal(SubSeq(s, 2, Len(s)), 10 * acc + DigitVal(SubSeq(s, 1, 1)))

\* int(x): an int is returned as it is; a str is stripped of surrounding
\* whitespace and read as an optional sign and decimal digits, ValueError
\* otherwise; None, mappings and lists raise TypeError
int(x) ==
    LET literal(digits, sign) ==
            IF IsDigits(digits) THEN Ok(sign * DigitsVal(digits, 0))
            ELSE Raise("ValueError", "int")
        signed(s) ==
            IF Len(s) > 0 /\ SubSeq(s, 1, 1) = "-"
            THEN literal(SubSeq(s, 2, Len(s)), -1)
            ELSE IF Len(s) > 0 /\ SubSeq(s, 1, 1) = "+"
            THEN literal(SubSeq(s, 2, Len(s)), 1)
            ELSE literal(s, 1)
    IN IF x.t = "int" THEN Ok(x.v)
       ELSE IF x.t # "str" THEN Raise("TypeError", "int")
       ELSE signed(Strip(x.v))

-----------------------------------------------------------------------------
(* class State(Enum) *)

StateNames ==
    (0 :> "init") @@ (1 :> "pending") @@ (2 :> "hold") @@ (3 :> "active") @@
    (4 :> "stopped") @@ (5 :> "suspended") @@ (6 :> "done") @@
    (8 :> "poweroff") @@ (9 :> "undeployed") @@ (10 :> "cloning") @@
    (11 :> "cloning_failure")

\* State(code): the member with that value, ValueError when there is none
State(code) ==
    IF code \in DOMAIN StateNames THEN Ok(StateNames[code])
    ELSE Raise("ValueError", "State")

\* pyone.LCM_STATE: the members the modelled pools use
LcmStateNames ==
    (0 :> "LCM_INIT") @@ (1 :> "PROLOG") @@ (2 :> "BOOT") @@ (3 :> "RUNNING")

LCM_STATE(code) ==
    IF code \in DOMAIN LcmStateNames THEN Ok(LcmStateNames[code])
    ELSE Raise("ValueError", "LCM_STATE")

-----------------------------------------------------------------------------
(* Remote API: server.vmpool.infoextended, server.template.info, server.vn.info *)

\* server.vn.info(id): the network object, or a pyone exception
vn_info(server, id) ==
    IF id \notin DOMAIN server.vn \/ server.vn[id].status = "noexist"
    THEN Raise("OneNoExistsException", "vn.info")
    ELSE IF server.vn[id].status = "error"
         THEN Raise("OneException", "vn.info")
         ELSE Ok(server.vn[id])

\* server.template.info(id): the template object, or a pyone exception
template_info(server, id) ==
    IF id \notin DOMAIN server.template \/ server.template[id].status = "noexist"
    THEN Raise("OneNoExistsException", "template.info")
    ELSE IF server.template[id].status = "error"
         THEN Raise("OneException", "template.info")
         ELSE Ok(server.template[id])

\* s[:-1] of a str or a list
DropLast(s) == IF Len(s) = 0 THEN s ELSE SubSeq(s, 1, Len(s) - 1)

-----------------------------------------------------------------------------
(* Module-level functions *)

\* one_dict_to_lowercase: the non-empty str fields of one_dict under their
\* lower-cased keys, "#text" skipped; of the keys that lower-case to the same
\* key the last one in one_dict.keys() wins. The call made on a mapping-valued
\* field returns into nothing: its result is not stored in result.
one_dict_to_lowercase(one_dict) ==
    LET kept == {n \in DOMAIN one_dict :
                    /\ one_dict[n][1] # "#text"
                    /\ one_dict[n][2].t = "str"
                    /\ Len(one_dict[n][2].v) > 0}
        last(lk) == CHOOSE n \in kept :
                        /\ lower(one_dict[n][1]) = lk
                        /\ \A m \in kept : lower(one_dict[m][1]) = lk => m <= n
    IN [lk \in {lower(one_dict[n][1]) : n \in kept} |->
            to_text(one_dict[last(lk)][2].v)]

\* get_domain_name_for_network with a default domain for a network that
\* declares none
get_domain_name_for_network_default(server, network_id) ==
    LET domain(vm_virtual_network) ==
            IF ~vm_virtual_network.ok
            THEN vm_virtual_network @@ [calls |-> 1]
            ELSE Ok(Str("localdomain")) @@ [calls |-> 1]
        info(id) ==
            IF ~id.ok THEN id @@ [calls |-> 0]
            ELSE domain(vn_info(server, id.val))
    IN info(int(network_id))

\* get_domain_name_for_network: Ok of the DOMAIN (a str or a list) without its
\* last element, Ok(None) when the network has no DOMAIN, or the exception of
\* int(), of the remote lookup or of the slice; calls counts the vn.info calls
\* issued.
get_domain_name_for_network(server, network_id) ==
    LET domain(vm_virtual_network) ==
            IF ~vm_virtual_network.ok
            THEN vm_virtual_network @@ [calls |-> 1]
            ELSE LET TEMPLATE == vm_virtual_network.val.TEMPLATE
                 IN IF Has(TEMPLATE, "DOMAIN")
                    THEN IF Get(TEMPLATE, "DOMAIN").t \in {"str", "list"}
                         THEN Ok([Get(TEMPLATE, "DOMAIN") EXCEPT
                                     !.v = DropLast(@)]) @@ [calls |-> 1]
                         ELSE \* a DOMAIN that cannot be sliced
                              Raise("TypeError", "DOMAIN[:-1]")
                                  @@ [calls |-> 1]
                    ELSE Ok(None) @@ [calls |-> 1]
        info(id) ==
            IF ~id.ok THEN id @@ [calls |-> 0]
            ELSE domain(vn_info(server, id.val))
    IN info(int(network_id))

-----------------------------------------------------------------------------
(* InventoryModule *)

NAME == "netcho.opennebula.opennebula"

\* _get_vmpool: the pool listing. The handler of pyone.OneException reads
\* e.message: an exception that carries the attribute is re-raised as
\* AnsibleRuntimeError, one that does not (a plain Exception subclass, as pyone
\* declares OneException) ends in AttributeError.
_get_vmpool(server) ==
    IF server.vmpool = "error"
    THEN Raise("AttributeError", "vmpool.infoextended")
    ELSE IF server.vmpool = "error_with_message"
    THEN Raise("AnsibleRuntimeError", "vmpool.infoextended")
    ELSE Ok(server.VM)

RECURSIVE NicLoop(_, _, _, _)
\* _get_dict_for_vm, the loop over vm_nics from index k on; the key of
\* network_id_domain_map is the raw nic["NETWORK_ID"] and its value the domain
\* returned, whatever their types
NicLoop(server, vm_nics, k, vm_dict) ==
    LET nic == vm_nics[k]
        map(appended, network_id, network_domain_name) ==
            IF ~network_domain_name.ok
            THEN Raise(network_domain_name.exc, network_domain_name.at)
            ELSE IF network_domain_name.val.t # "none"
            THEN NicLoop(server, vm_nics, k + 1,
                         [appended EXCEPT !["network_id_domain_map"] =
                             (network_id :> network_domain_name.val) @@ @])
            ELSE NicLoop(server, vm_nics, k + 1, appended)
    IN IF k > Len(vm_nics) THEN Ok(vm_dict)
       ELSE IF ~Has(nic, "NETWORK_ID")
       THEN Raise("KeyError", "nic[NETWORK_ID]")
       ELSE map([vm_dict EXCEPT
                    !["nic"] = Append(@, one_dict_to_lowercase(nic))],
                Get(nic, "NETWORK_ID"),
                get_domain_name_for_network(server, Get(nic, "NETWORK_ID")))

\* _get_dict_for_vm, the template block: template_id and template
TemplateFields(server, vm) ==
    LET fields(template_id, template_info_) ==
            IF template_info_.ok
            THEN Ok([template_id |-> template_id,
                     template |-> template_info_.val.NAME])
            ELSE IF template_info_.exc = "OneNoExistsException"
            THEN Ok([template_id |-> template_id])
            ELSE Raise("AnsibleRuntimeError", "template.info")
        info(id) ==
            IF ~id.ok THEN id
            ELSE fields(id.val, template_info(server, id.val))
    IN IF vm.TEMPLATE.t = "dict" /\ Has(vm.TEMPLATE.v, "TEMPLATE_ID")
       THEN info(int(Get(vm.TEMPLATE.v, "TEMPLATE_ID")))
       ELSE Ok(EmptyDict)

\* _get_dict_for_vm, the NIC block: the list the loop runs over
VmNics(vm_template) ==
    IF ~Has(vm_template, "NIC") THEN << >>
    ELSE IF Get(vm_template, "NIC").t = "dict" THEN <<Get(vm_template, "NIC").v>>
    ELSE IF Get(vm_template, "NIC").t = "list" THEN Get(vm_template, "NIC").v
    ELSE << >>

\* _get_dict_for_vm, the USER_TEMPLATE block, on the outcome of the NIC block
UserAttributes(vm, with_nics) ==
    IF ~with_nics.ok THEN with_nics
    ELSE IF vm.USER_TEMPLATE.t = "absent" THEN with_nics
    ELSE IF vm.USER_TEMPLATE.t = "dict"
    THEN Ok([user_attributes |-> one_dict_to_lowercase(vm.USER_TEMPLATE.v)]
            @@ with_nics.val)
    ELSE \* one_dict.keys() on a value that has none
         Raise("AttributeError", "USER_TEMPLATE.keys")

\* _get_dict_for_vm, from the template block on, on the outcome tf of the
\* template block
TemplateAndNics(server, vm, vm_dict, tf) ==
    IF ~tf.ok THEN tf
    ELSE IF vm.TEMPLATE.t = "dict"
    THEN UserAttributes(vm, NicLoop(server, VmNics(vm.TEMPLATE.v), 1,
                                    tf.val @@ vm_dict))
    ELSE UserAttributes(vm, Ok(tf.val @@ vm_dict))

\* _get_dict_for_vm: the record of one pooled VM, or the exception raised
_get_dict_for_vm(server, vm) ==
    LET vm_state == State(vm.VM_STATE)
        vm_lcm_state == LCM_STATE(vm.LCM_STATE)
    IN IF ~vm_state.ok THEN vm_state
       ELSE IF ~vm_lcm_state.ok THEN vm_lcm_state
       ELSE TemplateAndNics(server, vm,
                [id |-> vm.ID,
                 name |-> vm.NAME,
                 state |-> vm_state.val,
                 lcm_state |-> lower(vm_lcm_state.val),
                 deploy_id |-> vm.DEPLOY_ID,
                 start_timestamp |-> vm.STIME,
                 nic |-> << >>,
                 network_id_domain_map |-> EmptyDict],
                TemplateFields(server, vm))

RECURSIVE QueryLoop(_, _, _, _)
\* _query, the list comprehension from VM k on
QueryLoop(server, VM, k, acc) ==
    LET next(d) ==
            IF ~d.ok THEN d
            ELSE QueryLoop(server, VM, k + 1, Append(acc, d.val))
    IN IF k > Len(VM) THEN Ok(acc)
       ELSE next(_get_dict_for_vm(server, VM[k]))

\* _query: one record per VM of the pool, in pool order
_query(server) ==
    LET vmpool == _get_vmpool(server)
    IN IF ~vmpool.ok THEN vmpool
       ELSE QueryLoop(server, vmpool.val, 1, << >>)

\* _get_hostname: Ok(Str(hostname)), Ok(None) when no branch returns, or the
\* exception raised; calls counts the vn.info calls issued.
_get_hostname(server, hostname_preference, vm) ==
    LET fqdn(domain) ==
            IF ~domain.ok THEN domain
            ELSE IF domain.val.t = "none"
            THEN Ok(Str(vm.name)) @@ [calls |-> domain.calls]
            ELSE IF domain.val.t = "str"
            THEN Ok(Str(to_text(vm.name \o "." \o domain.val.v)))
                     @@ [calls |-> domain.calls]
            ELSE \* str + list
                 Raise("TypeError", "name + domain")
                     @@ [calls |-> domain.calls]
    IN IF hostname_preference = ""
       THEN Raise("AnsibleOptionsError", "one_hostname_preference")
                @@ [calls |-> 0]
       ELSE IF hostname_preference = "fqdn"
       THEN IF Len(vm.nic) = 0
            THEN Raise("IndexError", "nic[0]") @@ [calls |-> 0]
            ELSE IF "network_id" \notin DOMAIN vm.nic[1]
            THEN Raise("KeyError", "nic[0][network_id]") @@ [calls |-> 0]
            ELSE fqdn(get_domain_name_for_network(
                          server, Str(vm.nic[1]["network_id"])))
       ELSE IF hostname_preference = "name"
       THEN Ok(Str(vm.name)) @@ [calls |-> 0]
       ELSE Ok(None) @@ [calls |-> 0]

-----------------------------------------------------------------------------
(* Inventory (self.inventory) and cache key, as the plugin uses them *)

\* inventory.add_host(hostname): None or an empty name is refused with
\* AnsibleError, a new host starts without variables, a known host is kept
add_host(inv, hostname) ==
    IF hostname.t # "str" \/ Len(hostname.v) = 0
    THEN Raise("AnsibleError", "add_host")
    ELSE IF hostname.v \in DOMAIN inv THEN Ok(inv)
    ELSE Ok((hostname.v :> EmptyDict) @@ inv)

\* the loop of inventory.set_variable(hostname, fact, value) over host.items()
set_variables(inv, hostname, host) ==
    [inv EXCEPT ![hostname] = host @@ @]

\* sha1(NAME).hexdigest()[:5]
NameDigest == "52613"

\* sha1(path).hexdigest()[:5] of the modelled paths
PathDigest ==
    ("inventory/one.yml" :> "7de84") @@ ("other/one.yaml" :> "227b9")

\* get_cache_key(path): "{NAME}_{prefix}", the prefix being the first five
\* hex digits of the SHA-1 of the name and of the path joined by "s_"
get_cache_key(path) == NAME \o "_" \o NameDigest \o "s_" \o PathDigest[path]

\* attempt_to_read_cache with `or` for `and`
attempt_to_read_cache_or(user_cache_setting, cache_arg) ==
    user_cache_setting \/ cache_arg

\* parse: attempt_to_read_cache
attempt_to_read_cache(user_cache_setting, cache_arg) ==
    user_cache_setting /\ cache_arg

\* cache_needs_update without the `not`
needs_update_no_refresh(user_cache_setting, cache_arg) ==
    user_cache_setting /\ cache_arg

\* parse: cache_needs_update as first assigned
needs_update(user_cache_setting, cache_arg) ==
    user_cache_setting /\ ~cache_arg

-----------------------------------------------------------------------------
(* Inputs: raw VMs, remote platforms, options, inventory source paths *)

Nic0 ==
    << <<"NETWORK_ID", Str("0")>>, <<"IP", Str("10.0.0.5")>>,
       <<"MAC", Str("")>>, <<"#text", Str("nic")>>,
       <<"SECURITY", Dict(<< <<"RULE", Str("ssh")>> >>)>> >>

\* an id with surrounding whitespace, and two keys that lower-case alike
Nic1 ==
    << <<"NETWORK_ID", Str(" 1")>>, <<"IP", Str("10.0.1.5")>>,
       <<"Ip", Str("10.0.1.6")>> >>

NicNoId == << <<"NETWORK_ID", None>>, <<"IP", Str("10.0.2.5")>> >>

Absent == [t |-> "absent"]

RawVMs == {
    [ID |-> 5, NAME |-> "web1", VM_STATE |-> 3, LCM_STATE |-> 3,
     DEPLOY_ID |-> "one-5", STIME |-> 100,
     TEMPLATE |-> Dict(<< <<"TEMPLATE_ID", Str("0")>>, <<"NIC", Dict(Nic0)>> >>),
     USER_TEMPLATE |-> Dict(<< <<"ROLE", Str("web")>>, <<"NOTE", Str("")>>,
                               <<"LABELS", Dict(<< <<"ENV", Str("prod")>> >>)>> >>)],
    [ID |-> 6, NAME |-> "db1", VM_STATE |-> 8, LCM_STATE |-> 0,
     DEPLOY_ID |-> "", STIME |-> 200,
     TEMPLATE |-> Dict(<< <<"NIC", List(<<Nic1, Nic0>>)>> >>),
     USER_TEMPLATE |-> Absent],
    [ID |-> 7, NAME |-> "bare", VM_STATE |-> 3, LCM_STATE |-> 3,
     DEPLOY_ID |-> "one-7", STIME |-> 300,
     TEMPLATE |-> Dict(<< <<"CPU", Str("1")>> >>),
     USER_TEMPLATE |-> Absent],
    [ID |-> 8, NAME |-> "odd", VM_STATE |-> 7, LCM_STATE |-> 0,
     DEPLOY_ID |-> "", STIME |-> 400,
     TEMPLATE |-> None,
     USER_TEMPLATE |-> Absent],
    [ID |-> 9, NAME |-> "raw", VM_STATE |-> 3, LCM_STATE |-> 3,
     DEPLOY_ID |-> "one-9", STIME |-> 500,
     TEMPLATE |-> Dict(<< <<"NIC", Dict(NicNoId)>> >>),
     USER_TEMPLATE |-> Absent],
    [ID |-> 11, NAME |-> "untagged", VM_STATE |-> 3, LCM_STATE |-> 3,
     DEPLOY_ID |-> "one-11", STIME |-> 700,
     TEMPLATE |-> None,
     USER_TEMPLATE |-> None]
}

RECURSIVE SeqsUpTo(_, _)
\* the sequences over S of length at most n
SeqsUpTo(S, n) ==
    IF n = 0 THEN {<< >>}
    ELSE LET shorter == SeqsUpTo(S, n - 1)
         IN shorter \cup {Append(q, x) : q \in shorter, x \in S}

Pools == SeqsUpTo(RawVMs, MaxVMs)

Vn(status, TEMPLATE) == [status |-> status, TEMPLATE |-> TEMPLATE]
VnCorp ==
    Vn("ok", << <<"DOMAIN", Str("corp.local.")>>, <<"BRIDGE", Str("br0")>> >>)
VnExample == Vn("ok", << <<"DOMAIN", Str("example.com")>> >>)
VnLab == Vn("ok", << <<"DOMAIN", Str("lab.")>> >>)
VnPlain == Vn("ok", << <<"BRIDGE", Str("br1")>> >>)
\* a DOMAIN given twice, which the API reports as a list
VnList ==
    Vn("ok", << <<"DOMAIN", List(<< << <<"A", Str("b")>> >>,
                                    << <<"C", Str("d")>> >> >>)>> >>)
VnError == Vn("error", << >>)
VnGone == Vn("noexist", << >>)

Tpl(status) == (0 :> [status |-> status, NAME |-> "ubuntu"])

\* What the platform answers, apart from the pool it lists
Platforms == {
    [vmpool |-> "ok", template |-> Tpl("ok"), vn |-> (0 :> VnCorp) @@ (1 :> VnPlain)],
    [vmpool |-> "ok", template |-> Tpl("noexist"), vn |-> (0 :> VnExample) @@ (1 :> VnLab)],
    [vmpool |-> "ok", template |-> Tpl("error"), vn |-> (0 :> VnCorp) @@ (1 :> VnList)],
    [vmpool |-> "ok", template |-> Tpl("ok"), vn |-> (0 :> VnCorp) @@ (1 :> VnError)],
    [vmpool |-> "ok", template |-> Tpl("ok"), vn |-> (0 :> VnPlain) @@ (1 :> VnGone)],
    [vmpool |-> "error", template |-> Tpl("ok"), vn |-> (0 :> VnCorp) @@ (1 :> VnPlain)],
    [vmpool |-> "error_with_message", template |-> Tpl("ok"),
     vn |-> (0 :> VnCorp) @@ (1 :> VnPlain)]
}

Server(platform, VM) == [VM |-> VM] @@ platform

Preferences == {"fqdn", "name", "", "hostname"}

Paths == {"inventory/one.yml"}

-----------------------------------------------------------------------------
(* State machine *)

Init ==
    /\ remote \in {Server(p, VM) : p \in Platforms, VM \in Pools}
    /\ options \in [cache : BOOLEAN, one_hostname_preference : Preferences]
    /\ _cache = EmptyDict
    /\ pc = "idle"
    /\ cache_key = ""
    /\ cache = TRUE
    /\ source_data = None
    /\ cache_needs_update = FALSE
    /\ i = 1
    /\ inventory = EmptyDict
    /\ resolved = None
    /\ error = None
    /\ cache_read = "no"
    /\ cache_writes = 0
    /\ queries = 0
    /\ last_query = EmptyDict

\* parse, up to the cache flags: a run on `path` with the cache argument
\* `cache_arg`, the platform answering as `platform` while it lasts
ParseBegin(path, cache_arg, platform) ==
    /\ pc \in {"idle", "done", "failed"}
    /\ remote' = Server(platform, remote.VM)
    /\ cache_key' = get_cache_key(path)
    /\ cache' = cache_arg
    /\ source_data' = None
    /\ cache_needs_update' = needs_update(options.cache, cache_arg)
    /\ i' = 1
    /\ inventory' = EmptyDict
    /\ resolved' = None
    /\ error' = None
    /\ cache_read' = "no"
    /\ cache_writes' = 0
    /\ queries' = 0
    /\ pc' = "read_cache"
    /\ UNCHANGED <<options, _cache, last_query>>

\* parse: if attempt_to_read_cache: try: ... except KeyError: ...
ReadCache ==
    /\ pc = "read_cache"
    /\ IF attempt_to_read_cache(options.cache, cache)
       THEN IF cache_key \in DOMAIN _cache
            THEN /\ source_data' = List(_cache[cache_key])
                 /\ cache_read' = "hit"
                 /\ UNCHANGED cache_needs_update
            ELSE /\ cache_needs_update' = TRUE
                 /\ cache_read' = "miss"
                 /\ UNCHANGED source_data
       ELSE UNCHANGED <<source_data, cache_read, cache_needs_update>>
    /\ pc' = "query"
    /\ UNCHANGED <<remote, options, _cache, cache_key, cache, i, inventory,
                   resolved, error, cache_writes, queries, last_query>>

\* parse: if source_data is None: source_data = self._query()
Query ==
    /\ pc = "query"
    /\ IF source_data.t = "none"
       THEN \E r \in {_query(remote)} :
               /\ queries' = queries + 1
               /\ IF r.ok
                  THEN /\ source_data' = List(r.val)
                       /\ last_query' = (cache_key :> r.val) @@ last_query
                       /\ pc' = "write_cache"
                       /\ UNCHANGED error
                  ELSE /\ error' = r
                       /\ pc' = "failed"
                       /\ UNCHANGED <<source_data, last_query>>
       ELSE /\ pc' = "write_cache"
            /\ UNCHANGED <<source_data, last_query, error, queries>>
    /\ UNCHANGED <<remote, options, _cache, cache_key, cache, cache_needs_update,
                   i, inventory, resolved, cache_read, cache_writes>>

\* parse: if cache_needs_update: self._cache[cache_key] = source_data
WriteCache ==
    /\ pc = "write_cache"
    /\ IF cache_needs_update
       THEN /\ _cache' = (cache_key :> source_data.v) @@ _cache
            /\ cache_writes' = cache_writes + 1
       ELSE UNCHANGED <<_cache, cache_writes>>
    /\ pc' = "populate"
    /\ UNCHANGED <<remote, options, cache_key, cache, source_data,
                   cache_needs_update, i, inventory, resolved, error, cache_read,
                   queries, last_query>>

\* _populate_from_source: one iteration of the loop, on source_data[i]
PopulateHost ==
    /\ pc = "populate"
    /\ i <= Len(source_data.v)
    /\ LET host == source_data.v[i]
       IN IF Len(host.nic) = 0
          THEN \* the message names vm, which is not defined in this method
               /\ error' = Raise("NameError", "vm")
               /\ pc' = "failed"
               /\ UNCHANGED <<i, inventory, resolved>>
          ELSE \E hostname \in {_get_hostname(
                                    remote, options.one_hostname_preference, host)} :
                  /\ resolved' = hostname @@ [record |-> i]
                  /\ IF ~hostname.ok
                     THEN /\ error' = Raise(hostname.exc, hostname.at)
                          /\ pc' = "failed"
                          /\ UNCHANGED <<i, inventory>>
                     ELSE LET added == add_host(inventory, hostname.val)
                          IN IF ~added.ok
                             THEN /\ error' = added
                                  /\ pc' = "failed"
                                  /\ UNCHANGED <<i, inventory>>
                             ELSE /\ inventory' = set_variables(
                                         added.val, hostname.val.v, host)
                                  /\ i' = i + 1
                                  /\ UNCHANGED <<pc, error>>
    /\ UNCHANGED <<remote, options, _cache, cache_key, cache, source_data,
                   cache_needs_update, cache_read, cache_writes, queries,
                   last_query>>

\* _populate_from_source: the loop is exhausted and parse returns
PopulateDone ==
    /\ pc = "populate"
    /\ i > Len(source_data.v)
    /\ pc' = "done"
    /\ UNCHANGED <<remote, options, _cache, cache_key, cache, source_data,
                   cache_needs_update, i, inventory, resolved, error, cache_read,
                   cache_writes, queries, last_query>>

Next ==
    \/ \E path \in Paths, cache_arg \in BOOLEAN, platform \in Platforms :
           ParseBegin(path, cache_arg, platform)
    \/ ReadCache
    \/ Query
    \/ WriteCache
    \/ PopulateHost
    \/ PopulateDone

Spec == Init /\ [][Next]_vars

-----------------------------------------------------------------------------
(* Properties *)

\* the hostname resolver has been called in this run
Resolved == "ok" \in DOMAIN resolved

\* the run has a list of records (from the cache or from _query)
HasRecords == source_data.t = "list"

\* the run ended in an exception raised while populating
FailedInPopulate == pc = "failed" /\ HasRecords

ValidPreference == options.one_hostname_preference \in {"fqdn", "name"}

\* the error kinds the specification calls fatal: a remote failure other than
\* not-found, an invalid hostname policy, an unknown state code
FatalError ==
    /\ pc = "failed"
    /\ \/ error.exc = "AnsibleRuntimeError"
       \/ error.exc = "AttributeError" /\ error.at = "vmpool.infoextended"
       \/ error.exc = "OneException"
       \/ error.exc = "AnsibleOptionsError"
       \/ error.exc = "ValueError" /\ error.at = "State"
       \/ ~ValidPreference /\ FailedInPopulate /\ error.exc = "AnsibleError"

\* C1: when a run ends in a fatal error, the inventory holds no host added by
\* the run.
C1_NoHostOnFatalError ==
    FatalError => DOMAIN inventory = {}

\* C2: the cache is read only when the cache option and the cache argument are
\* both set; on a hit the slow path does not run and the records, and the hosts
\* populated from them, are the cached sequence; a miss raises nothing and the
\* slow path runs exactly once.
C2_CacheReadPolicy ==
    /\ cache_read # "no" => options.cache /\ cache
    /\ cache_read = "hit" =>
          /\ queries = 0
          /\ cache_key \in DOMAIN _cache
          /\ source_data = List(_cache[cache_key])
          /\ pc = "done" =>
                {inventory[h] : h \in DOMAIN inventory}
                    = {source_data.v[k] : k \in 1..Len(source_data.v)}
    /\ cache_read = "miss" =>
          /\ pc = "query" => error = None /\ queries = 0
          /\ pc \in {"write_cache", "populate", "done", "failed"} => queries = 1

\* C2 witness: a run served from a cache entry that the platform would no
\* longer produce has finished and registered hosts.
C2_Witness ==
    /\ cache_read = "hit"
    /\ pc = "done"
    /\ DOMAIN inventory # {}
    /\ LET fresh == _query(remote)
       IN fresh.ok /\ fresh.val # source_data.v

\* C3: with the cache option set, the result of every completed slow-path
\* query is stored under the run's cache key before populating, and a run that
\* reads the cache gets the sequence the latest query produced; with the cache
\* option unset the cache is neither read nor written.
C3_QueryResultPersisted ==
    /\ (options.cache /\ queries = 1 /\ pc \in {"populate", "done", "failed"}
            /\ HasRecords) =>
          /\ cache_writes = 1
          /\ cache_key \in DOMAIN _cache
          /\ _cache[cache_key] = source_data.v
    /\ (options.cache /\ pc # "write_cache") => _cache = last_query
    /\ cache_read = "hit" =>
          /\ cache_key \in DOMAIN last_query
          /\ source_data.v = last_query[cache_key]
    /\ ~options.cache =>
          cache_read = "no" /\ cache_writes = 0 /\ _cache = EmptyDict

\* C3 witness: a forced refresh (cache option set, cache argument unset) has
\* queried a non-empty pool and stored the result under the run's cache key.
C3_Witness ==
    /\ options.cache /\ ~cache
    /\ queries = 1
    /\ pc = "populate"
    /\ HasRecords /\ Len(source_data.v) > 0
    /\ cache_writes = 1
    /\ _cache[cache_key] = source_data.v

\* C4: a record without NICs is registered under its name, under either
\* policy, and does not make the run fail.
C4_EmptyNicRegisteredUnderName ==
    (HasRecords /\ pc \in {"populate", "done", "failed"} /\ ValidPreference) =>
        \A k \in 1..Len(source_data.v) :
            Len(source_data.v[k].nic) = 0 =>
                /\ ~(FailedInPopulate /\ k = i)
                /\ k < i => source_data.v[k].name \in DOMAIN inventory

\* C5: under a hostname policy other than fqdn and name, hostname resolution
\* fails with an InvalidOption error (AnsibleOptionsError) and returns nothing.
C5_InvalidPolicyRaisesInvalidOption ==
    (Resolved /\ ~ValidPreference) =>
        ~resolved.ok /\ resolved.exc = "AnsibleOptionsError"

\* the domain with only a trailing separator removed
StripTrailingDot(d) ==
    IF Len(d) > 0 /\ SubSeq(d, Len(d), Len(d)) = "." THEN DropLast(d) ELSE d

\* C6: under fqdn, for a record with a NIC, the hostname is the name, ".", and
\* the DOMAIN of the first NIC's network with only a trailing "." removed, and
\* the bare name when that network declares no DOMAIN.
C6_FqdnStripsOnlyTrailingSeparator ==
    (Resolved /\ options.one_hostname_preference = "fqdn" /\ resolved.ok) =>
        LET vm == source_data.v[resolved.record]
            net == remote.vn[int(Str(vm.nic[1]["network_id"])).val]
        IN IF Has(net.TEMPLATE, "DOMAIN")
           THEN resolved.val.v =
                    vm.name \o "." \o
                        StripTrailingDot(Get(net.TEMPLATE, "DOMAIN").v)
           ELSE resolved.val.v = vm.name

\* the raw VM names a template whose lookup reports that it does not exist
TemplateGone(server, vm) ==
    /\ vm.TEMPLATE.t = "dict"
    /\ Has(vm.TEMPLATE.v, "TEMPLATE_ID")
    /\ int(Get(vm.TEMPLATE.v, "TEMPLATE_ID")).ok
    /\ LET info ==
               template_info(server, int(Get(vm.TEMPLATE.v, "TEMPLATE_ID")).val)
       IN ~info.ok /\ info.exc = "OneNoExistsException"

\* C7: a VM whose template no longer exists is still built, its record has
\* neither template nor template_id, and the other VMs of the pool are built.
C7_DeletedTemplateOmitsTemplateFields ==
    (queries = 1 /\ HasRecords) =>
        /\ Len(source_data.v) = Len(remote.VM)
        /\ \A k \in 1..Len(source_data.v) :
              TemplateGone(remote, remote.VM[k]) =>
                  /\ "template" \notin DOMAIN source_data.v[k]
                  /\ "template_id" \notin DOMAIN source_data.v[k]

RECURSIVE NestedStrKeys(_)
\* the keys, at any depth, that hold a non-empty str, "#text" excepted
NestedStrKeys(d) ==
    {key \in Keys(d) :
        key # "#text" /\ Get(d, key).t = "str" /\ Len(Get(d, key).v) > 0}
    \cup UNION {NestedStrKeys(Get(d, key).v) :
                   key \in {x \in Keys(d) : x # "#text" /\ Get(d, x).t = "dict"}}

\* C8: the normalised NICs and user attributes of a built record hold, lower-
\* cased, every non-empty str key found at any depth of the raw mapping, and
\* never "#text".
C8_NormalizeMergesNestedMappings ==
    (queries = 1 /\ HasRecords) =>
        \A k \in 1..Len(source_data.v) :
            LET vm == remote.VM[k]
                rec == source_data.v[k]
            IN /\ \A j \in 1..Len(rec.nic) :
                      /\ "#text" \notin DOMAIN rec.nic[j]
                      /\ \A key \in NestedStrKeys(VmNics(vm.TEMPLATE.v)[j]) :
                             lower(key) \in DOMAIN rec.nic[j]
               /\ vm.USER_TEMPLATE.t = "dict" =>
                      \A key \in NestedStrKeys(vm.USER_TEMPLATE.v) :
                          lower(key) \in DOMAIN rec.user_attributes

\* the network the platform knows under the id `key` declares a DOMAIN
DeclaresDomain(server, key) ==
    LET id == int(key)
    IN /\ id.ok
       /\ id.val \in DOMAIN server.vn
       /\ server.vn[id.val].status = "ok"
       /\ Has(server.vn[id.val].TEMPLATE, "DOMAIN")

\* C9: in every record the keys of network_id_domain_map are network_id values
\* of the record's NICs, and a record just built has a key only for a network
\* that declares a DOMAIN.
C9_DomainMapKeysAreNicNetworks ==
    HasRecords =>
        \A k \in 1..Len(source_data.v) :
            LET rec == source_data.v[k]
            IN \A key \in DOMAIN rec.network_id_domain_map :
                   /\ \E j \in 1..Len(rec.nic) :
                          /\ "network_id" \in DOMAIN rec.nic[j]
                          /\ Str(rec.nic[j]["network_id"]) = key
                   /\ queries = 1 => DeclaresDomain(remote, key)

\* C9 witness: a record just built from a list of NICs has a map entry for one
\* NIC's network and none for the network of another NIC.
C9_Witness ==
    /\ HasRecords /\ queries = 1
    /\ \E k \in 1..Len(source_data.v) :
           LET rec == source_data.v[k]
           IN /\ Len(rec.nic) > 1
              /\ \E j \in 1..Len(rec.nic) :
                     Str(rec.nic[j]["network_id"])
                         \in DOMAIN rec.network_id_domain_map
              /\ \E j \in 1..Len(rec.nic) :
                     Str(rec.nic[j]["network_id"])
                         \notin DOMAIN rec.network_id_domain_map

\* C10: under fqdn, when the record's network_id_domain_map has an entry for
\* the first NIC's network_id, hostname resolution issues no remote network
\* lookup and takes the domain from the map.
C10_MapEntryAvoidsRemoteLookup ==
    (Resolved /\ options.one_hostname_preference = "fqdn") =>
        LET vm == source_data.v[resolved.record]
        IN ("network_id" \in DOMAIN vm.nic[1]
                /\ Str(vm.nic[1]["network_id"])
                       \in DOMAIN vm.network_id_domain_map) =>
               /\ resolved.calls = 0
               /\ resolved.ok
               /\ resolved.val.v =
                      vm.name \o "." \o
                          vm.network_id_domain_map[
                              Str(vm.nic[1]["network_id"])].v

====
